---- MODULE Spec2Model ----
(***************************************************************************)
(* Level-detection pipeline of btc-levels-bot.                             *)
(*                                                                         *)
(* The repository holds two builds of the same program:                    *)
(*   "index"    - src/src/index.js                                         *)
(*   "part_000" - src/unnamed/part_000 (clustering + volume weighting)     *)
(* The variable `build` says which of the two is running; every operator   *)
(* whose code differs between the two takes the build as a parameter.      *)
(*                                                                         *)
(* Numbers: prices and volumes are integers; every quotient the code       *)
(* computes in floating point is kept as an exact fraction [n, d] (d > 0)  *)
(* and compared by cross-multiplication.  Times are in seconds: the value  *)
(* of Date.now() is 1000 * now.                                            *)
(***************************************************************************)
EXTENDS Integers, Sequences, FiniteSets, TLC

VARIABLES
    build,                  \* which source file is running
    \* ---- process-wide state (part_000:22-24)
    predefinedLevels,
    cachedHistoricalData,
    lastCacheTime,
    \* ---- environment
    clock,                  \* Date.now() / 1000
    \* ---- the pipeline runs and the startup pre-warm
    runs,
    \* ---- bookkeeping of the fetches (not program state)
    cacheSrc,               \* whose fetch wrote the cached series / the cache time
    \* ---- inputs and results of the pure stages (SpecLevels, SpecValidate)
    input,
    output

vars == <<build, predefinedLevels, cachedHistoricalData, lastCacheTime,
          clock, runs, cacheSrc, input, output>>

Builds == {"index", "part_000"}

(***************************************************************************)
(* Nullable values, fractions, elementary helpers                          *)
(***************************************************************************)
None == [some |-> FALSE, v |-> 0]
NoSeries == [some |-> FALSE, v |-> <<>>]
Some(x) == [some |-> TRUE, v |-> x]

Rat(a, b) == [n |-> a, d |-> b]
RatLeq(x, y) == x.n * y.d <= y.n * x.d
RatLt(x, y) == x.n * y.d < y.n * x.d
RatEq(x, y) == x.n * y.d = y.n * x.d
RatAdd(x, y) == Rat(x.n * y.d + y.n * x.d, x.d * y.d)
RatMax(x, y) == IF RatLt(x, y) THEN y ELSE x

Abs(x) == IF x < 0 THEN 0 - x ELSE x
Max(S) == CHOOSE x \in S : \A y \in S : y <= x
Min(S) == CHOOSE x \in S : \A y \in S : x <= y

\* Array.prototype.slice(from, to) on a zero-based array, as the set of its values
SliceVals(a, from, to) == {a[k + 1] : k \in from..(IF to < Len(a) THEN to ELSE Len(a)) - 1}

\* arr.reduce((a, b) => a + b, 0), summed by halves to keep the evaluation shallow
RECURSIVE SumRange(_, _, _)
SumRange(s, lo, hi) ==
    IF lo > hi THEN 0
    ELSE IF lo = hi THEN s[lo]
    ELSE LET mid == (lo + hi) \div 2
         IN  SumRange(s, lo, mid) + SumRange(s, mid + 1, hi)

SumSeq(s) == SumRange(s, 1, Len(s))

\* [...set].sort((a, b) => a - b)
RECURSIVE SortSet(_)
SortSet(S) == IF S = {} THEN <<>> ELSE <<Min(S)>> \o SortSet(S \ {Min(S)})

\* arr.sort((a, b) => a - b) on fractions (stable insertion)
RECURSIVE InsertRat(_, _)
InsertRat(s, x) ==
    IF s = <<>> THEN <<x>>
    ELSE IF RatLt(x, s[1]) THEN <<x>> \o s
    ELSE <<s[1]>> \o InsertRat(Tail(s), x)

RECURSIVE SortRat(_)
SortRat(s) == IF s = <<>> THEN <<>> ELSE InsertRat(SortRat(SubSeq(s, 1, Len(s) - 1)), s[Len(s)])

SeqRange(s) == {s[k] : k \in 1..Len(s)}

\* arr.sort((a, b) => a - b) on numbers
RECURSIVE InsertNum(_, _)
InsertNum(s, x) ==
    IF s = <<>> THEN <<x>>
    ELSE IF x < s[1] THEN <<x>> \o s
    ELSE <<s[1]>> \o InsertNum(Tail(s), x)

RECURSIVE SortNum(_)
SortNum(s) == IF s = <<>> THEN <<>> ELSE InsertNum(SortNum(SubSeq(s, 1, Len(s) - 1)), s[Len(s)])

(***************************************************************************)
(* Program constants                                                       *)
(***************************************************************************)
CACHE_DURATION_MS == 24 * 60 * 60 * 1000
MinBars == 100
MaxKeyLevels == 20
minTouches == 2
minReversals == 2

windowSize(b) == IF b = "index" THEN 50 ELSE 20
minDistance(b) == IF b = "index" THEN 50 ELSE 30
\* calibrateFromValidated: the value returned for an empty validated set
defaultProminence(b) == IF b = "index" THEN Rat(5, 100) ELSE Rat(2, 100)
\* calibrateFromValidated: the lower limit applied to a computed average
minProminence == Rat(2, 100)
clusterTolerance == Rat(1, 100)

(***************************************************************************)
(* validatePredefinedLevels (the part after the series is obtained)        *)
(***************************************************************************)
\* Touch: within zone
isTouch(prev, curr, level) ==
    LET low == IF prev.low < curr.low THEN prev.low ELSE curr.low
        high == IF prev.high > curr.high THEN prev.high ELSE curr.high
    IN  100 * low <= 101 * level /\ 100 * high >= 99 * level

\* Reversal: close crosses level
isReversal(prev, curr, level) ==
    \/ prev.close < level /\ curr.close > level
    \/ prev.close > level /\ curr.close < level

\* keepLevel with the reversal threshold forgotten
keepLevelTouchesOnly(counts) == counts.touches >= minTouches

\* one iteration of the inner loop, zero-based i: what it adds to the two counters
touchStep(historicalData, level, i) ==
    LET prev == historicalData[i]
        curr == historicalData[i + 1]
        t == isTouch(prev, curr, level)
        r == t /\ isReversal(prev, curr, level)
    IN  [touches |-> IF t THEN 1 ELSE 0, reversals |-> IF r THEN 1 ELSE 0]

\* the iterations lo..hi of the inner loop, added up by halves to keep the
\* evaluation shallow on long series
RECURSIVE countRange(_, _, _, _)
countRange(historicalData, level, lo, hi) ==
    IF lo > hi THEN [touches |-> 0, reversals |-> 0]
    ELSE IF lo = hi THEN touchStep(historicalData, level, lo)
    ELSE LET mid == (lo + hi) \div 2
             a == countRange(historicalData, level, lo, mid)
             b == countRange(historicalData, level, mid + 1, hi)
         IN  [touches |-> a.touches + b.touches, reversals |-> a.reversals + b.reversals]

\* the inner loop: for (let i = 1; i < historicalData.length; i++), zero-based i
countTouches(historicalData, level, i, acc) ==
    LET c == countRange(historicalData, level, i, Len(historicalData) - 1)
    IN  [touches |-> acc.touches + c.touches, reversals |-> acc.reversals + c.reversals]

keepLevel(counts) == counts.touches >= minTouches /\ counts.reversals >= minReversals

\* validated.sort((a, b) => a.level - b.level)
RECURSIVE insertByLevel(_, _)
insertByLevel(s, x) ==
    IF s = <<>> THEN <<x>>
    ELSE IF x.level < s[1].level THEN <<x>> \o s
    ELSE <<s[1]>> \o insertByLevel(Tail(s), x)

RECURSIVE sortByLevel(_)
sortByLevel(s) ==
    IF s = <<>> THEN <<>>
    ELSE insertByLevel(sortByLevel(SubSeq(s, 1, Len(s) - 1)), s[Len(s)])

\* the outer loop: for (const level of predefinedLevels)
RECURSIVE scanLevels(_, _, _)
scanLevels(historicalData, levels, validated) ==
    IF levels = <<>> THEN validated
    ELSE LET level == levels[1]
             c == countTouches(historicalData, level, 1, [touches |-> 0, reversals |-> 0])
         IN  scanLevels(historicalData, Tail(levels),
                 IF keepLevel(c)
                 THEN Append(validated, [level |-> level, touches |-> c.touches,
                                         reversals |-> c.reversals])
                 ELSE validated)

\* historicalData is nullable: [some, v]
validatePredefinedLevels(historicalData, levels) ==
    IF ~historicalData.some \/ Len(levels) = 0 THEN <<>>
    ELSE sortByLevel(scanLevels(historicalData.v, levels, <<>>))

(***************************************************************************)
(* calibrateFromValidated                                                  *)
(***************************************************************************)
isNear(price, level) == 100 * Abs(price - level) < 2 * level

\* one iteration of the loop over the series, zero-based i: the swing it pushes
swingStep(historicalData, level, i) ==
    LET curr == historicalData[i + 1]
        next == historicalData[i + 2]
    IN  IF isNear(curr.low, level) \/ isNear(curr.high, level)
        THEN [sum |-> Abs(next.close - curr.close), count |-> 1]
        ELSE [sum |-> 0, count |-> 0]

\* the iterations lo..hi of that loop, added up by halves
RECURSIVE swingRange(_, _, _, _)
swingRange(historicalData, level, lo, hi) ==
    IF lo > hi THEN [sum |-> 0, count |-> 0]
    ELSE IF lo = hi THEN swingStep(historicalData, level, lo)
    ELSE LET mid == (lo + hi) \div 2
             a == swingRange(historicalData, level, lo, mid)
             b == swingRange(historicalData, level, mid + 1, hi)
         IN  [sum |-> a.sum + b.sum, count |-> a.count + b.count]

\* swings of one level: [sum of |next.close - curr.close|, number of swings];
\* for (let i = 0; i < historicalData.length - 1; i++)
collectSwings(historicalData, level, i, acc) ==
    LET c == swingRange(historicalData, level, i, Len(historicalData) - 2)
    IN  [sum |-> acc.sum + c.sum, count |-> acc.count + c.count]

\* swings.length > 0 ? swings.reduce(...) / swings.length : 0, each swing divided by level
levelProminence(historicalData, level) ==
    LET sw == collectSwings(historicalData, level, 0, [sum |-> 0, count |-> 0])
    IN  IF sw.count > 0 THEN Rat(sw.sum, level * sw.count) ELSE Rat(0, 1)

RECURSIVE totalProminence(_, _)
totalProminence(historicalData, validated) ==
    IF validated = <<>> THEN Rat(0, 1)
    ELSE RatAdd(levelProminence(historicalData, validated[1].level),
                totalProminence(historicalData, Tail(validated)))

avgProminence(validated, historicalData) ==
    LET t == totalProminence(historicalData, validated)
    IN  Rat(t.n, t.d * Len(validated))

\* return Math.max(0.02, avgProminence)
calibratedResult(avg) == RatMax(minProminence, avg)

calibrateFromValidated(validated, historicalData, b) ==
    IF Len(validated) = 0 THEN defaultProminence(b)
    ELSE calibratedResult(avgProminence(validated, historicalData))

(***************************************************************************)
(* clusterLevels, volumeWeightLevels                                       *)
(***************************************************************************)
\* Math.abs(levels[i] - last) / last <= tolerance
withinTolerance(x, last, tolerance) == Abs(x - last) * tolerance.d <= tolerance.n * last

\* the loop of clusterLevels; the clusters are kept as their member lists
RECURSIVE clusterLoop(_, _, _, _, _)
clusterLoop(levels, tolerance, i, clustered, currentCluster) ==
    IF i >= Len(levels) THEN Append(clustered, currentCluster)
    ELSE IF withinTolerance(levels[i + 1], currentCluster[Len(currentCluster)], tolerance)
         THEN clusterLoop(levels, tolerance, i + 1, clustered,
                          Append(currentCluster, levels[i + 1]))
         ELSE clusterLoop(levels, tolerance, i + 1, Append(clustered, currentCluster),
                          <<levels[i + 1]>>)

\* levels has been sorted ascending (levels.sort at the head of clusterLevels)
clusterGroups(levels, tolerance) ==
    IF Len(levels) <= 1 THEN [k \in 1..Len(levels) |-> <<levels[k]>>]
    ELSE clusterLoop(levels, tolerance, 1, <<>>, <<levels[1]>>)

\* Average cluster
clusterAvg(cluster) == Rat(SumSeq(cluster), Len(cluster))

clusterLevels(levels, tolerance) ==
    LET groups == clusterGroups(SortNum(levels), tolerance)
    IN  SortRat([k \in 1..Len(groups) |-> clusterAvg(groups[k])])

\* Math.abs(day.low - level) / level < 0.01 || Math.abs(day.high - level) / level < 0.01
nearDay(day, level) ==
    \/ 100 * Abs(day.low - level) < level
    \/ 100 * Abs(day.high - level) < level

volumeScore(level, historicalData) ==
    SumSeq([k \in 1..Len(historicalData) |->
               IF nearDay(historicalData[k], level) THEN historicalData[k].volume ELSE 0])

\* volumeScore >= avgVolume * 2, avgVolume = sum / length
volumeWeightLevels(levels, historicalData) ==
    LET sumVolume == SumSeq([k \in 1..Len(historicalData) |-> historicalData[k].volume])
        keep(level) == volumeScore(level, historicalData) * Len(historicalData) >= 2 * sumVolume
    IN  SelectSeq(levels, keep)

(***************************************************************************)
(* getDynamicLevels (the part after the series is obtained)                *)
(***************************************************************************)
\* the candidate indices: for (let i = windowSize; i < length - windowSize; i++)
candidateIdx(n, b) ==
    [k \in 1..(IF n - 2 * windowSize(b) > 0 THEN n - 2 * windowSize(b) ELSE 0) |->
        windowSize(b) + k - 1]

\* isResistance with the window cut at the bar itself: slice(i - windowSize, i + 1)
isResistanceLeftWindow(highs, i, calibratedProminence, b) ==
    /\ highs[i + 1] = Max(SliceVals(highs, i - windowSize(b), i + 1))
    /\ LET leftMin == Min(SliceVals(highs, Max({0, i - minDistance(b)}), i))
       IN  (highs[i + 1] - leftMin) * calibratedProminence.d
               >= calibratedProminence.n * highs[i + 1]

\* Resistances: local max in highs
isResistance(highs, i, calibratedProminence, b) ==
    /\ highs[i + 1] = Max(SliceVals(highs, i - windowSize(b), i + windowSize(b) + 1))
    /\ LET leftMin == Min(SliceVals(highs, Max({0, i - minDistance(b)}), i))
       IN  (highs[i + 1] - leftMin) * calibratedProminence.d
               >= calibratedProminence.n * highs[i + 1]

\* Supports: local min in lows; the right maximum is taken over the lows in
\* index.js:170 and over the highs in part_000:208
isSupport(highs, lows, i, calibratedProminence, b) ==
    /\ lows[i + 1] = Min(SliceVals(lows, i - windowSize(b), i + windowSize(b) + 1))
    /\ LET other == IF b = "index" THEN lows ELSE highs
           rightMax == Max(SliceVals(other, i, Min({Len(other), i + minDistance(b)})))
       IN  (rightMax - lows[i + 1]) * calibratedProminence.d
               >= calibratedProminence.n * lows[i + 1]

resistanceIdx(historicalData, calibratedProminence, b) ==
    LET highs == [k \in 1..Len(historicalData) |-> historicalData[k].high]
        ok(i) == isResistance(highs, i, calibratedProminence, b)
    IN  SelectSeq(candidateIdx(Len(highs), b), ok)

supportIdx(historicalData, calibratedProminence, b) ==
    LET highs == [k \in 1..Len(historicalData) |-> historicalData[k].high]
        lows == [k \in 1..Len(historicalData) |-> historicalData[k].low]
        ok(i) == isSupport(highs, lows, i, calibratedProminence, b)
    IN  SelectSeq(candidateIdx(Len(lows), b), ok)

\* inRange without the upper limit
inRangeNoUpper(l, currentPrice) == 10 * l >= 3 * currentPrice

\* l >= currentPrice * 0.3 && l <= currentPrice * 2.5
inRange(l, currentPrice) == 10 * l >= 3 * currentPrice /\ 10 * l <= 25 * currentPrice

\* arr.slice(0, n)
firstN(s, n) == SubSeq(s, 1, IF Len(s) < n THEN Len(s) ELSE n)

\* x[0] || null and x.slice(-1)[0] || null
firstOrNull(s) == IF s = <<>> \/ s[1] = 0 THEN None ELSE Some(s[1])
lastOrNull(s) == IF s = <<>> \/ s[Len(s)] = 0 THEN None ELSE Some(s[Len(s)])

emptyResult(b) ==
    [keyLevels |-> <<>>, groups |-> <<>>, support |-> None, resistance |-> None,
     similarityScore |-> IF b = "index" THEN Some(0) ELSE None,
     supports |-> <<>>, resistances |-> <<>>, maxIdx |-> {}, minIdx |-> {}]

\* index.js:149-189
postProcessIndex(rawSupports, rawResistances, currentPrice) ==
    LET range(l) == inRange(l, currentPrice)
        supports == SortSet(SeqRange(SelectSeq(rawSupports, range)))
        resistances == SortSet(SeqRange(SelectSeq(rawResistances, range)))
        merged == SortSet(SeqRange(supports) \cup SeqRange(resistances))
        keyLevels == firstN(merged, MaxKeyLevels)
        below(x) == x < currentPrice
        above(x) == x > currentPrice
    IN  [keyLevels |-> [k \in 1..Len(keyLevels) |-> Rat(keyLevels[k], 1)],
         groups |-> [k \in 1..Len(keyLevels) |-> <<keyLevels[k]>>],
         support |-> lastOrNull(SelectSeq(supports, below)),
         resistance |-> firstOrNull(SelectSeq(resistances, above))]

\* part_000:214-235
postProcessOptimized(rawSupports, rawResistances, currentPrice, historicalData) ==
    LET range(l) == inRange(l, currentPrice)
        allLevels == SortSet({l \in SeqRange(rawSupports) \cup SeqRange(rawResistances) : range(l)})
        weighted == volumeWeightLevels(allLevels, historicalData)
        groups == clusterGroups(SortNum(weighted), clusterTolerance)
        clustered == clusterLevels(weighted, clusterTolerance)
        below(x) == x < currentPrice
        above(x) == x > currentPrice
    IN  [keyLevels |-> firstN(clustered, MaxKeyLevels),
         groups |-> firstN(groups, MaxKeyLevels),
         support |-> lastOrNull(SelectSeq(rawSupports, below)),
         resistance |-> firstOrNull(SelectSeq(rawResistances, above))]

\* the guard with the length test left out
tooShortNullOnly(historicalData) == ~historicalData.some

\* !historicalData || historicalData.length < 100
tooShort(historicalData) == ~historicalData.some \/ Len(historicalData.v) < MinBars

\* historicalData is nullable: [some, v]
getDynamicLevels(historicalData, currentPrice, calibratedProminence, b) ==
    IF tooShort(historicalData) THEN emptyResult(b)
    ELSE LET hd == historicalData.v
             rIdx == resistanceIdx(hd, calibratedProminence, b)
             sIdx == supportIdx(hd, calibratedProminence, b)
             resistances == [k \in 1..Len(rIdx) |-> hd[rIdx[k] + 1].high]
             supports == [k \in 1..Len(sIdx) |-> hd[sIdx[k] + 1].low]
             post == IF b = "index"
                     THEN postProcessIndex(supports, resistances, currentPrice)
                     ELSE postProcessOptimized(supports, resistances, currentPrice, hd)
         IN  [keyLevels |-> post.keyLevels, groups |-> post.groups,
              support |-> post.support, resistance |-> post.resistance,
              similarityScore |-> None,
              supports |-> supports, resistances |-> resistances,
              maxIdx |-> SeqRange(rIdx), minIdx |-> SeqRange(sIdx)]

(***************************************************************************)
(* Daily series used as inputs of getDynamicLevels: SeriesLen quiet days   *)
(* (baseBar) with at most MaxEvents eventful days placed at EventPos.      *)
(***************************************************************************)
SeriesLen == 160
MaxEvents == 2

EventPos == {30, 55, 60, 108}

baseBar == [high |-> 200, low |-> 198, close |-> 199, volume |-> 10]

EventBars == {
    [high |-> 220, low |-> 198, close |-> 199, volume |-> 300],    \* spike
    [high |-> 221, low |-> 198, close |-> 199, volume |-> 300],    \* spike, 0.5% higher
    [high |-> 221, low |-> 198, close |-> 199, volume |-> 10],     \* spike on thin volume
    [high |-> 200, low |-> 180, close |-> 199, volume |-> 300],    \* dip
    [high |-> 200, low |-> 181, close |-> 199, volume |-> 300],    \* dip, 0.5% higher
    [high |-> 220, low |-> 180, close |-> 199, volume |-> 300] }   \* outside day

NoEvent == [high |-> 0, low |-> 0, close |-> 0, volume |-> 0]

EventPlans ==
    {e \in [EventPos -> EventBars \cup {NoEvent}] :
        Cardinality({p \in EventPos : e[p] # NoEvent}) <= MaxEvents}

seriesOf(plan) ==
    [k \in 1..SeriesLen |->
        LET b == IF (k - 1) \in EventPos /\ plan[k - 1] # NoEvent THEN plan[k - 1] ELSE baseBar
        IN  [time |-> k, high |-> b.high, low |-> b.low, close |-> b.close,
             volume |-> b.volume]]

Prices == {80, 199, 700}
Prominences == {Rat(2, 100), Rat(5, 100)}

NoInput == [kind |-> "none", plan |-> [p \in EventPos |-> NoEvent], currentPrice |-> 0,
            calibratedProminence |-> Rat(0, 1), series |-> <<>>, levels |-> <<>>,
            validated |-> <<>>]
NoOutput == [stage |-> "none", levels |-> emptyResult("part_000"), validated |-> <<>>,
             calibrated |-> Rat(0, 1)]

InitIdleCache ==
    /\ predefinedLevels = <<>>
    /\ cachedHistoricalData = NoSeries
    /\ lastCacheTime = None
    /\ clock = 0
    /\ runs = <<>>
    /\ cacheSrc = [series |-> 0, time |-> 0]

InitLevels ==
    /\ build \in Builds
    /\ InitIdleCache
    /\ \E plan \in EventPlans, price \in Prices, prom \in Prominences :
          input = [NoInput EXCEPT !.kind = "levels", !.plan = plan,
                                  !.currentPrice = price, !.calibratedProminence = prom]
    /\ output = NoOutput

\* getDynamicLevels on a series the cache returned
DetectLevels ==
    /\ input.kind = "levels"
    /\ output.stage = "none"
    /\ output' = [output EXCEPT !.stage = "levels",
                     !.levels = getDynamicLevels(Some(seriesOf(input.plan)), input.currentPrice,
                                                 input.calibratedProminence, build)]
    /\ UNCHANGED <<build, predefinedLevels, cachedHistoricalData, lastCacheTime, clock,
                   runs, cacheSrc, input>>

NextLevels == DetectLevels

SpecLevels == InitLevels /\ [][NextLevels]_vars

(***************************************************************************)
(* Properties of getDynamicLevels                                          *)
(***************************************************************************)
RatMaxOf(S) == CHOOSE x \in S : \A y \in S : RatLeq(y, x)
RatMinOf(S) == CHOOSE x \in S : \A y \in S : RatLeq(x, y)

\* the key levels whose cluster holds a raw level of the given list
retainedFrom(lv, raw) ==
    {lv.keyLevels[k] : k \in {j \in 1..Len(lv.keyLevels) :
                                 SeqRange(lv.groups[j]) \cap SeqRange(raw) # {}}}

closestSupportIs(lv, currentPrice) ==
    LET below == {x \in retainedFrom(lv, lv.supports) : RatLt(x, Rat(currentPrice, 1))}
    IN  IF below = {} THEN lv.support = None
        ELSE lv.support.some /\ RatEq(Rat(lv.support.v, 1), RatMaxOf(below))

closestResistanceIs(lv, currentPrice) ==
    LET above == {x \in retainedFrom(lv, lv.resistances) : RatLt(Rat(currentPrice, 1), x)}
    IN  IF above = {} THEN lv.resistance = None
        ELSE lv.resistance.some /\ RatEq(Rat(lv.resistance.v, 1), RatMinOf(above))

\* C1: the returned support is the greatest retained support level strictly below
\* currentPrice (or null) and the returned resistance is the smallest retained
\* resistance level strictly above currentPrice (or null).
C1_ClosestPick ==
    output.stage = "levels" =>
        /\ closestSupportIs(output.levels, input.currentPrice)
        /\ closestResistanceIs(output.levels, input.currentPrice)

\* (b - a) / a > 1%
apartMoreThan1Pct(a, b) == 100 * (b.n * a.d - a.n * b.d) > a.n * b.d

\* C2: keyLevels is strictly ascending and no two adjacent key levels are within 1%
\* of each other.
C2_ClusteringInvariant ==
    output.stage = "levels" =>
        \A k \in 1..(Len(output.levels.keyLevels) - 1) :
            /\ RatLt(output.levels.keyLevels[k], output.levels.keyLevels[k + 1])
            /\ apartMoreThan1Pct(output.levels.keyLevels[k], output.levels.keyLevels[k + 1])

\* C3: every key level lies within [0.3 * currentPrice, 2.5 * currentPrice].
C3_KeyLevelsInRange ==
    output.stage = "levels" =>
        \A k \in 1..Len(output.levels.keyLevels) :
            LET x == output.levels.keyLevels[k]
            IN  /\ 10 * x.n >= 3 * input.currentPrice * x.d
                /\ 10 * x.n <= 25 * input.currentPrice * x.d

\* C6: no bar index is accepted both as a maximum and as a minimum.
C6_NoIndexBoth ==
    output.stage = "levels" => output.levels.maxIdx \cap output.levels.minIdx = {}

\* C3 witness: a key level that is the average of a cluster was returned while a raw
\* level outside the range was detected and dropped.
C3_Witness ==
    /\ output.stage = "levels"
    /\ \E k \in 1..Len(output.levels.groups) : Len(output.levels.groups[k]) >= 2
    /\ \E l \in SeqRange(output.levels.supports) \cup SeqRange(output.levels.resistances) :
          ~inRange(l, input.currentPrice)

\* C6 (amended): an index accepted both as a maximum and as a minimum is a bar whose
\* high is the highest high and whose low is the lowest low of its whole window
\* [i - windowSize, i + windowSize].
C6_BothOnlyOutsideBar ==
    output.stage = "levels" =>
        \A i \in output.levels.maxIdx \cap output.levels.minIdx :
            LET hd == seriesOf(input.plan)
            IN  \A j \in (i - windowSize(build))..(i + windowSize(build)) :
                    /\ hd[j + 1].high <= hd[i + 1].high
                    /\ hd[j + 1].low >= hd[i + 1].low

\* C6 witness: some bar index was accepted both as a maximum and as a minimum.
C6_Witness ==
    /\ output.stage = "levels"
    /\ output.levels.maxIdx \cap output.levels.minIdx # {}

(***************************************************************************)
(* Inputs of validatePredefinedLevels and calibrateFromValidated: short    *)
(* series around the levels 100 and 104.                                   *)
(***************************************************************************)
MaxBars == 3
MaxLevels == 2

ShortBars == {
    [time |-> 0, high |-> 103, low |-> 97, close |-> 98, volume |-> 10],
    [time |-> 0, high |-> 103, low |-> 97, close |-> 102, volume |-> 10],
    [time |-> 0, high |-> 100, low |-> 99, close |-> 100, volume |-> 10],
    [time |-> 0, high |-> 110, low |-> 105, close |-> 108, volume |-> 10],
    [time |-> 0, high |-> 96, low |-> 95, close |-> 95, volume |-> 10] }

LevelChoices == {100, 104}

SeqsUpTo(S, n) == UNION {[1..k -> S] : k \in 0..n}

ShortSeries == SeqsUpTo(ShortBars, MaxBars)

\* predefinedLevels as loadPredefinedLevels leaves it: sorted ascending
SortedLevels == {l \in SeqsUpTo(LevelChoices, MaxLevels) : \A k \in 1..(Len(l) - 1) : l[k] <= l[k + 1]}

ValidatedChoices ==
    {[k \in 1..Len(l) |-> [level |-> l[k], touches |-> minTouches, reversals |-> minReversals]] :
        l \in SortedLevels}

InitValidate ==
    /\ build \in Builds
    /\ InitIdleCache
    /\ \/ \E hd \in ShortSeries, l \in SortedLevels, gotSeries \in BOOLEAN :
             input = [NoInput EXCEPT !.kind = IF gotSeries THEN "validate" ELSE "validateNull",
                                     !.series = IF gotSeries THEN hd ELSE <<>>,
                                     !.levels = l]
       \/ \E hd \in ShortSeries, v \in ValidatedChoices :
             input = [NoInput EXCEPT !.kind = "calibrate", !.series = hd, !.validated = v]
    /\ output = NoOutput

\* validatePredefinedLevels on the series getHistoricalBTCData returned (null included)
ValidateLevels ==
    /\ input.kind \in {"validate", "validateNull"}
    /\ output.stage = "none"
    /\ output' = [output EXCEPT !.stage = "validated",
                     !.validated = validatePredefinedLevels(
                         IF input.kind = "validate" THEN Some(input.series) ELSE NoSeries,
                         input.levels)]
    /\ UNCHANGED <<build, predefinedLevels, cachedHistoricalData, lastCacheTime, clock,
                   runs, cacheSrc, input>>

CalibrateLevels ==
    /\ input.kind = "calibrate"
    /\ output.stage = "none"
    /\ output' = [output EXCEPT !.stage = "calibrated",
                     !.calibrated = calibrateFromValidated(input.validated, input.series, build)]
    /\ UNCHANGED <<build, predefinedLevels, cachedHistoricalData, lastCacheTime, clock,
                   runs, cacheSrc, input>>

NextValidate == ValidateLevels \/ CalibrateLevels

SpecValidate == InitValidate /\ [][NextValidate]_vars

(***************************************************************************)
(* Properties of validatePredefinedLevels and calibrateFromValidated       *)
(***************************************************************************)
\* the adjacent pairs (k, k + 1) of a series whose envelope, widened by 1% of the
\* level, contains the level
touchingPairs(hd, level) ==
    {k \in 1..(Len(hd) - 1) :
        /\ 100 * Min({hd[k].low, hd[k + 1].low}) <= 101 * level
        /\ 100 * Max({hd[k].high, hd[k + 1].high}) >= 99 * level}

crossingPairs(hd, level) ==
    {k \in touchingPairs(hd, level) :
        \/ hd[k].close < level /\ level < hd[k + 1].close
        \/ hd[k + 1].close < level /\ level < hd[k].close}

\* C4: the result holds exactly the configured levels with at least 2 touches and at
\* least 2 reversals, each with its counts, ascending by level; it is empty for an
\* empty level list, an empty series or no series.
C4_ValidatedExactly ==
    output.stage = "validated" =>
        LET qualifies(l) == /\ Cardinality(touchingPairs(input.series, l)) >= 2
                            /\ Cardinality(crossingPairs(input.series, l)) >= 2
            expected == SelectSeq(input.levels, qualifies)
            v == output.validated
        IN  /\ Len(v) = Len(expected)
            /\ \A k \in 1..Len(v) :
                  /\ v[k].level = expected[k]
                  /\ v[k].touches = Cardinality(touchingPairs(input.series, v[k].level))
                  /\ v[k].reversals = Cardinality(crossingPairs(input.series, v[k].level))
            /\ \A k \in 1..(Len(v) - 1) : v[k].level <= v[k + 1].level
            /\ (input.levels = <<>> \/ input.series = <<>>) => v = <<>>

\* C4 witness: one configured level was kept and another was rejected although it was
\* touched at least twice.
C4_Witness ==
    /\ output.stage = "validated"
    /\ Len(output.validated) >= 1
    /\ \E k \in 1..Len(input.levels) :
          /\ Cardinality(touchingPairs(input.series, input.levels[k])) >= 2
          /\ \A j \in 1..Len(output.validated) : output.validated[j].level # input.levels[k]

\* C5: the empty validated set yields the default floor, and a non-empty validated set
\* never yields less than the empty set yields.
C5_CalibrationFloor ==
    output.stage = "calibrated" =>
        /\ input.validated = <<>> => output.calibrated = defaultProminence(build)
        /\ input.validated # <<>> =>
              RatLeq(calibrateFromValidated(<<>>, input.series, build), output.calibrated)

(***************************************************************************)
(* getHistoricalBTCData: cache test, normalisation of a response, writes   *)
(***************************************************************************)
OneDay == 24 * 60 * 60
HalfDay == 12 * 60 * 60
ClockStart == 1700 * 1000 * 1000
\* 3 * 365 * 24 * 60 * 60 * 1000 ms
ThreeYears == 3 * 365 * OneDay

\* the test with the comparison turned round
cacheIsFreshInverted(cached, last, now) ==
    cached.some /\ last.some /\ last.v # 0 /\ (now - last.v) * 1000 > CACHE_DURATION_MS

\* cachedHistoricalData && lastCacheTime && (now - lastCacheTime) < CACHE_DURATION_MS
cacheIsFresh(cached, last, now) ==
    cached.some /\ last.some /\ last.v # 0 /\ (now - last.v) * 1000 < CACHE_DURATION_MS

\* what the data source answers for toTs = endTime: a day `age` days before endTime
apiDay(raw, endTime) ==
    [time |-> endTime - raw.age * OneDay, high |-> raw.high, low |-> raw.low,
     close |-> raw.close, volumeto |-> raw.volumeto]

\* d => ({ time, high, low, close, volume: d.volumeto }); index.js keeps no volume
mapDay(d, b) ==
    [time |-> d.time, high |-> d.high, low |-> d.low, close |-> d.close,
     volume |-> IF b = "part_000" THEN d.volumeto ELSE 0]

Reverse(s) == [k \in 1..Len(s) |-> s[Len(s) + 1 - k]]

\* map, reverse, filter to the last 3 years
normalise(days, now, b) ==
    LET mapped == Reverse([k \in 1..Len(days) |-> mapDay(days[k], b)])
        threeYearsAgo == now - ThreeYears
        recent(d) == d.time >= threeYearsAgo
    IN  SelectSeq(mapped, recent)

\* the cache write with the time stamp forgotten
storeFetchedSeriesOnly(data, now, id, oldTime, oldSrc) ==
    [series |-> Some(data), time |-> oldTime, src |-> [series |-> id, time |-> oldSrc.time]]

\* cachedHistoricalData = data; lastCacheTime = now;
storeFetched(data, now, id, oldTime, oldSrc) ==
    [series |-> Some(data), time |-> Some(now), src |-> [series |-> id, time |-> id]]

\* the catch block with a back-off stamp added: lastCacheTime = now
cacheAfterFailureStamped(cached, last, now) == [series |-> cached, time |-> Some(now)]

\* the catch block writes nothing
cacheAfterFailure(cached, last, now) == [series |-> cached, time |-> last]

\* if (cachedHistoricalData) return cachedHistoricalData; return null;
returnedOnFailure(cached) == IF cached.some THEN cached ELSE NoSeries

(***************************************************************************)
(* The processes: startApp (process 0) and the "Get Dynamic Levels" runs   *)
(***************************************************************************)
NumRuns == 1
MaxTicks == 2

Startup == 0
Runs == 1..NumRuns
Procs == {Startup} \cup Runs

dayBelow(age) == [age |-> age, high |-> 103, low |-> 97, close |-> 98, volumeto |-> 10]
dayAbove(age) == [age |-> age, high |-> 103, low |-> 97, close |-> 102, volumeto |-> 10]

\* the well-formed responses of the data source, in the order it sends them
OkResponses == {
    <<dayAbove(4 * 365), dayBelow(2), dayAbove(1), dayBelow(0)>> }

LevelFiles == {<<>>, <<100>>}
PriceAnswers == {0, 99}

NoReport == [support |-> None, resistance |-> None, similarityScore |-> Rat(0, 1),
             validated |-> 0, keyLevels |-> 0]

InitRun(p) ==
    [pc |-> IF p = Startup THEN "load" ELSE "idle", call |-> "none", now |-> 0,
     currentPrice |-> 0, hd |-> NoSeries, validated |-> <<>>,
     calibrated |-> Rat(0, 1), result |-> emptyResult("part_000"), report |-> NoReport,
     outcome |-> "none", lastFetch |-> "none"]

Init ==
    /\ build \in Builds
    /\ predefinedLevels = <<>>
    /\ cachedHistoricalData = NoSeries
    /\ lastCacheTime = None
    /\ clock = ClockStart
    /\ runs = [p \in Procs |-> InitRun(p)]
    /\ cacheSrc = [series |-> 0, time |-> 0]
    /\ input = NoInput
    /\ output = NoOutput

CacheUnchanged == UNCHANGED <<cachedHistoricalData, lastCacheTime, cacheSrc>>
PureUnchanged == UNCHANGED <<build, input, output>>

\* names the process whose fetch wrote a cache field (0: nobody yet)
fetchIdOf(p) == p + 1

\* getHistoricalBTCData up to its await, as the process with locals r runs it for
\* `call`: the cache test, then either the cached series or axios.get
enterCall(r, call) ==
    IF cacheIsFresh(cachedHistoricalData, lastCacheTime, clock)
    THEN [r EXCEPT !.call = call, !.hd = cachedHistoricalData, !.lastFetch = "hit",
                   !.pc = "resume"]
    ELSE [r EXCEPT !.call = call, !.now = clock, !.lastFetch = "none",
                   !.pc = "fetching"]

\* startApp: loadPredefinedLevels() (levels.json sorted, or [] when unreadable)
LoadPredefinedLevels ==
    /\ runs[Startup].pc = "load"
    /\ \E file \in LevelFiles : predefinedLevels' = SortNum(file)
    /\ runs' = [runs EXCEPT ![Startup].pc = "enter"]
    /\ CacheUnchanged /\ PureUnchanged
    /\ UNCHANGED clock

\* startApp after its first await: getHistoricalBTCData()  // Pre-warm
Prewarm ==
    /\ runs[Startup].pc = "enter"
    /\ runs' = [runs EXCEPT ![Startup] = enterCall(runs[Startup], "prewarm")]
    /\ CacheUnchanged /\ PureUnchanged
    /\ UNCHANGED <<predefinedLevels, clock>>

\* bot.onText(Get Dynamic Levels): admin check, then await getCurrentPrice()
StartRun(p) ==
    /\ runs[p].pc = "idle"
    /\ \E admin \in BOOLEAN :
          runs' = [runs EXCEPT ![p].pc = IF admin THEN "price" ELSE "done",
                               ![p].outcome = IF admin THEN "none" ELSE "denied"]
    /\ CacheUnchanged /\ PureUnchanged
    /\ UNCHANGED <<predefinedLevels, clock>>

\* getCurrentPrice() answers (0: both sources failed, null); with a price the handler
\* goes on to Step 1: validatePredefinedLevels() calls getHistoricalBTCData()
PriceArrives(p) ==
    /\ runs[p].pc = "price"
    /\ \E price \in PriceAnswers :
          runs' = [runs EXCEPT ![p] =
                      IF price = 0
                      THEN [runs[p] EXCEPT !.pc = "done", !.outcome = "noPrice"]
                      ELSE enterCall([runs[p] EXCEPT !.currentPrice = price], "validate")]
    /\ CacheUnchanged /\ PureUnchanged
    /\ UNCHANGED <<predefinedLevels, clock>>

\* axios.get resolves with a well-formed response
FetchSucceeds(p) ==
    /\ runs[p].pc = "fetching"
    /\ \E days \in OkResponses :
          LET data == normalise([k \in 1..Len(days) |-> apiDay(days[k], runs[p].now)],
                                runs[p].now, build)
              w == storeFetched(data, runs[p].now, fetchIdOf(p), lastCacheTime, cacheSrc)
          IN  /\ cachedHistoricalData' = w.series
              /\ lastCacheTime' = w.time
              /\ cacheSrc' = w.src
              /\ runs' = [runs EXCEPT ![p].hd = Some(data),
                                      ![p].lastFetch = "ok",
                                      ![p].now = 0,
                                      ![p].pc = "resume"]
    /\ PureUnchanged
    /\ UNCHANGED <<predefinedLevels, clock>>

\* axios.get rejects, or the response has no Data.Data array: the catch block
FetchFails(p) ==
    /\ runs[p].pc = "fetching"
    /\ LET w == cacheAfterFailure(cachedHistoricalData, lastCacheTime, runs[p].now)
       IN  /\ cachedHistoricalData' = w.series
           /\ lastCacheTime' = w.time
    /\ runs' = [runs EXCEPT ![p].hd = returnedOnFailure(cachedHistoricalData),
                            ![p].lastFetch = "failed",
                            ![p].now = 0,
                            ![p].pc = "resume"]
    /\ PureUnchanged
    /\ UNCHANGED <<predefinedLevels, clock, cacheSrc>>

\* startApp after the pre-warm
ResumePrewarm ==
    /\ runs[Startup].pc = "resume"
    /\ runs' = [runs EXCEPT ![Startup].pc = "done", ![Startup].outcome = "ready",
                            ![Startup].lastFetch = "none", ![Startup].hd = NoSeries]
    /\ CacheUnchanged /\ PureUnchanged
    /\ UNCHANGED <<predefinedLevels, clock>>

\* validatePredefinedLevels after its await; the handler goes on to Step 2 and
\* calls getHistoricalBTCData()
ResumeValidate(p) ==
    /\ runs[p].pc = "resume" /\ runs[p].call = "validate"
    /\ runs' = [runs EXCEPT ![p] =
                   enterCall([runs[p] EXCEPT !.validated =
                                 validatePredefinedLevels(runs[p].hd, predefinedLevels)],
                             "calibrate")]
    /\ CacheUnchanged /\ PureUnchanged
    /\ UNCHANGED <<predefinedLevels, clock>>

\* calibrateFromValidated reads historicalData.length once validated is non-empty:
\* a TypeError when the series is null
calibrateThrows(validated, historicalData) == Len(validated) > 0 /\ ~historicalData.some

\* Step 2: calibrateFromValidated(validated, historicalData); reading .length of a
\* null series throws into the handler's catch.  Then Step 3: getDynamicLevels()
\* calls getHistoricalBTCData()
ResumeCalibrate(p) ==
    /\ runs[p].pc = "resume" /\ runs[p].call = "calibrate"
    /\ IF calibrateThrows(runs[p].validated, runs[p].hd)
       THEN runs' = [runs EXCEPT ![p].pc = "done", ![p].outcome = "error",
                                 ![p].lastFetch = "none", ![p].hd = NoSeries,
                                 ![p].validated = <<>>]
       ELSE runs' = [runs EXCEPT ![p] =
                        enterCall([runs[p] EXCEPT !.calibrated =
                                      calibrateFromValidated(runs[p].validated,
                                                             runs[p].hd.v, build)],
                                  "detect")]
    /\ CacheUnchanged /\ PureUnchanged
    /\ UNCHANGED <<predefinedLevels, clock>>

\* Step 4: Math.abs(detected - v.level) / v.level <= 0.02 for some validated v
matchesValidated(detected, validated) ==
    \E k \in 1..Len(validated) :
        Abs(detected.n - validated[k].level * detected.d) * 100
            <= 2 * validated[k].level * detected.d

similarity(validated, keyLevels) ==
    IF Len(validated) > 0 /\ Len(keyLevels) > 0
    THEN LET matched(d) == matchesValidated(d, validated)
         IN  Rat(100 * Len(SelectSeq(keyLevels, matched)), Len(keyLevels))
    ELSE Rat(0, 1)

\* Step 3 after its await, Step 4 and the report
ResumeDetect(p) ==
    /\ runs[p].pc = "resume" /\ runs[p].call = "detect"
    /\ LET r == getDynamicLevels(runs[p].hd, runs[p].currentPrice,
                                 runs[p].calibrated, build)
       IN  runs' = [runs EXCEPT ![p].result = r,
                                ![p].report =
                                    [support |-> r.support, resistance |-> r.resistance,
                                     similarityScore |-> similarity(runs[p].validated, r.keyLevels),
                                     validated |-> Len(runs[p].validated),
                                     keyLevels |-> Len(r.keyLevels)],
                                ![p].lastFetch = "none",
                                ![p].hd = NoSeries,
                                ![p].validated = <<>>,
                                ![p].calibrated = Rat(0, 1),
                                ![p].pc = "done",
                                ![p].outcome = "report"]
    /\ CacheUnchanged /\ PureUnchanged
    /\ UNCHANGED <<predefinedLevels, clock>>

\* time passes; the clock is read by getHistoricalBTCData alone, so it is advanced
\* only when some process is about to call it
Tick ==
    /\ \E p \in Procs :
          \/ runs[p].pc \in {"enter", "price"}
          \/ runs[p].pc = "resume" /\ runs[p].call \in {"validate", "calibrate"}
    /\ clock < ClockStart + MaxTicks * HalfDay
    /\ clock' = clock + HalfDay
    /\ CacheUnchanged /\ PureUnchanged
    /\ UNCHANGED <<predefinedLevels, runs>>

Next ==
    \/ LoadPredefinedLevels
    \/ Prewarm
    \/ \E p \in Runs : StartRun(p)
    \/ \E p \in Runs : PriceArrives(p)
    \/ \E p \in Procs : FetchSucceeds(p)
    \/ \E p \in Procs : FetchFails(p)
    \/ ResumePrewarm
    \/ \E p \in Runs : ResumeValidate(p)
    \/ \E p \in Runs : ResumeCalibrate(p)
    \/ \E p \in Runs : ResumeDetect(p)
    \/ Tick

Spec == Init /\ [][Next]_vars

(***************************************************************************)
(* Properties of the cache and of the pipeline run                         *)
(***************************************************************************)
\* process p calls getHistoricalBTCData in this step
callBegins(p) == runs'[p].call # runs[p].call /\ runs'[p].call # "none"

\* a cache entry exists and now - lastCacheTime < CACHE_DURATION_MS
entryIsFresh ==
    /\ cachedHistoricalData.some
    /\ lastCacheTime.some
    /\ (clock - lastCacheTime.v) * 1000 < CACHE_DURATION_MS

\* C7: a call made while a cache entry exists and is younger than CACHE_DURATION_MS
\* returns the cached series, issues no fetch and leaves the series and
\* lastCacheTime unchanged.
C7_FreshCacheHit ==
    [][\A p \in Procs :
          (callBegins(p) /\ entryIsFresh) =>
              /\ runs'[p].pc = "resume"
              /\ runs'[p].lastFetch = "hit"
              /\ runs'[p].hd = cachedHistoricalData
              /\ cachedHistoricalData' = cachedHistoricalData
              /\ lastCacheTime' = lastCacheTime]_vars

\* C7 witness: a call was served from an entry fetched earlier than the call.
C7_Witness ==
    \E p \in Procs :
        /\ runs[p].lastFetch = "hit"
        /\ runs[p].hd = cachedHistoricalData
        /\ lastCacheTime.some /\ lastCacheTime.v < clock

\* C8: when a fetch fails while a cache entry exists, the call returns the cached
\* series and the step leaves the series and lastCacheTime as they were.
C8_FailedRefreshKeepsEntry ==
    [][\A p \in Procs :
          (runs[p].pc = "fetching" /\ runs'[p].lastFetch = "failed"
              /\ cachedHistoricalData.some) =>
              /\ runs'[p].hd = cachedHistoricalData
              /\ cachedHistoricalData' = cachedHistoricalData
              /\ lastCacheTime' = lastCacheTime]_vars

\* C8 witness: a failed refresh returned an entry that is older than CACHE_DURATION_MS.
C8_Witness ==
    \E p \in Procs :
        /\ runs[p].lastFetch = "failed"
        /\ runs[p].hd.some /\ runs[p].hd = cachedHistoricalData
        /\ lastCacheTime.some
        /\ (clock - lastCacheTime.v) * 1000 >= CACHE_DURATION_MS

\* C9: once a run's series request has failed with no cache entry, the run ends with
\* that failure reported: its next step is the end of the run with an error, with no
\* further call of getHistoricalBTCData and no levels report.
C9_DataUnavailableIsFatal ==
    [][\A p \in Runs :
          (runs[p].pc = "resume" /\ runs[p].lastFetch = "failed" /\ ~runs[p].hd.some
              /\ runs'[p] # runs[p]) =>
              /\ runs'[p].pc = "done"
              /\ runs'[p].outcome = "error"]_vars

\* C10: at every point where another run can execute, the cached series and
\* lastCacheTime were written by the same fetch, and the series is non-null exactly
\* when lastCacheTime is non-null.
C10_WholeEntry ==
    /\ cachedHistoricalData.some <=> lastCacheTime.some
    /\ cacheSrc.series = cacheSrc.time

\* C10 witness: the entry was written by one process while the fetch of another
\* process, issued before the entry's own fetch, is still in flight.
C10_Witness ==
    /\ cachedHistoricalData.some
    /\ \E p \in Procs :
          /\ runs[p].pc = "fetching"
          /\ fetchIdOf(p) # cacheSrc.series
          /\ runs[p].now < lastCacheTime.v

\* process p's fetch resolves in this step and its result is stored
refreshLands(p) == runs[p].pc = "fetching" /\ runs'[p].lastFetch = "ok"

\* C13: under any interleaving of refreshes in flight, lastCacheTime never decreases
\* and the cached series is never replaced by the result of a fetch that started
\* earlier than the fetch that produced the stored entry.
C13_NoStaleOverwrite ==
    [][/\ lastCacheTime.some =>
             (lastCacheTime'.some /\ lastCacheTime'.v >= lastCacheTime.v)
       /\ \A p \in Procs :
             (refreshLands(p) /\ lastCacheTime.some /\ runs[p].now < lastCacheTime.v) =>
                 /\ cachedHistoricalData' = cachedHistoricalData
                 /\ cacheSrc' = cacheSrc]_vars

\* process p's call of getHistoricalBTCData returns in this step: at once from the
\* cache, or when its fetch settles
callReturns(p) ==
    /\ runs'[p].pc = "resume"
    /\ callBegins(p) \/ runs[p].pc = "fetching"

\* C14: the series used by the validation, calibration and detection stages of one
\* run are identical: the second and the third call of a run return what the call
\* before returned (runs[p].hd holds the previous result until the call returns).
C14_OneSeriesPerRun ==
    [][\A p \in Runs :
          (callReturns(p) /\ runs'[p].call \in {"calibrate", "detect"}) =>
              runs'[p].hd = runs[p].hd]_vars

(***************************************************************************)
(* getHistoricalBTCData on an arbitrary response of the data source        *)
(***************************************************************************)
MaxDays == 3

\* the days a response is made of: today, yesterday, and a day older than 3 years
DayAges == {0, 1, 4 * 365}

\* every response of up to MaxDays days, in any order, repeated days included
Responses == SeqsUpTo({dayBelow(a) : a \in DayAges}, MaxDays)

InitNormalise ==
    /\ build \in Builds
    /\ predefinedLevels = <<>>
    /\ cachedHistoricalData = NoSeries
    /\ lastCacheTime = None
    /\ clock = ClockStart
    /\ runs = <<>>
    /\ cacheSrc = [series |-> 0, time |-> 0]
    /\ \E days \in Responses : input = [NoInput EXCEPT !.kind = "response", !.series = days]
    /\ output = NoOutput

\* the try block of getHistoricalBTCData with an empty cache: the response is mapped,
\* reversed and filtered, then stored and returned
FetchResponse ==
    /\ input.kind = "response"
    /\ output.stage = "none"
    /\ LET now == clock
           endTime == now
           data == normalise([k \in 1..Len(input.series) |-> apiDay(input.series[k], endTime)],
                             now, build)
           w == storeFetched(data, now, fetchIdOf(Startup), lastCacheTime, cacheSrc)
       IN  /\ cachedHistoricalData' = w.series
           /\ lastCacheTime' = w.time
           /\ cacheSrc' = w.src
    /\ output' = [output EXCEPT !.stage = "fetched"]
    /\ UNCHANGED <<build, predefinedLevels, clock, runs, input>>

NextNormalise == FetchResponse

SpecNormalise == InitNormalise /\ [][NextNormalise]_vars

\* C11: whatever the response (any order, repeated timestamps), the series stored in
\* the cache is strictly increasing in time (oldest first, no two bars with the same
\* timestamp) and every bar lies inside the lookback window of three years.
C11_StoredSeriesOrdered ==
    output.stage = "fetched" =>
        LET data == cachedHistoricalData.v
        IN  /\ \A k \in 1..(Len(data) - 1) : data[k].time < data[k + 1].time
            /\ \A k \in 1..Len(data) :
                  /\ data[k].time >= clock - ThreeYears
                  /\ data[k].time <= clock

(***************************************************************************)
(* Steps 1 to 3 of the "Get Dynamic Levels" handler on one series          *)
(***************************************************************************)
\* a series one bar short of the minimum
AlmostEnough == MinBars - 1

\* the series a run may be served: none, up to MaxBars bars, or AlmostEnough bars
\* of a longer history
ServedSeries ==
    {NoSeries} \cup {Some(hd) : hd \in ShortSeries}
        \cup {Some(SubSeq(seriesOf(plan), 1, AlmostEnough)) : plan \in EventPlans}

InitPipeline ==
    /\ build \in Builds
    /\ InitIdleCache
    /\ \E hd \in ServedSeries, file \in LevelFiles, price \in PriceAnswers \ {0} :
          input = [NoInput EXCEPT !.kind = IF hd.some THEN "pipeline" ELSE "pipelineNull",
                                  !.series = hd.v, !.levels = SortNum(file),
                                  !.currentPrice = price]
    /\ output = NoOutput

\* Steps 1 to 3 with every getHistoricalBTCData call answered with the same series
RunPipeline ==
    /\ input.kind \in {"pipeline", "pipelineNull"}
    /\ output.stage = "none"
    /\ LET hd == IF input.kind = "pipeline" THEN Some(input.series) ELSE NoSeries
           validated == validatePredefinedLevels(hd, input.levels)
       IN  IF calibrateThrows(validated, hd)
           THEN output' = [output EXCEPT !.stage = "threw", !.validated = validated]
           ELSE LET calibrated == calibrateFromValidated(validated, hd.v, build)
                IN  output' = [stage |-> "report", validated |-> validated,
                               calibrated |-> calibrated,
                               levels |-> getDynamicLevels(hd, input.currentPrice,
                                                           calibrated, build)]
    /\ UNCHANGED <<build, predefinedLevels, cachedHistoricalData, lastCacheTime, clock,
                   runs, cacheSrc, input>>

NextPipeline == RunPipeline

SpecPipeline == InitPipeline /\ [][NextPipeline]_vars

\* C12: for an empty series or a series of fewer than 100 bars, validation and
\* calibration complete without throwing and getDynamicLevels returns the empty
\* result: keyLevels [], support null, resistance null.
C12_ShortSeriesEmptyResult ==
    (output.stage # "none" /\ input.kind = "pipeline" /\ Len(input.series) < MinBars) =>
        /\ output.stage = "report"
        /\ output.levels.keyLevels = <<>>
        /\ output.levels.support = None
        /\ output.levels.resistance = None

\* C12 witness: a run on a series one bar short of the minimum, holding a day that
\* lies inside the detection range and stands out of its window, ended with the
\* empty result.
C12_Witness ==
    /\ output.stage = "report"
    /\ input.kind = "pipeline"
    /\ Len(input.series) = AlmostEnough
    /\ \E i \in windowSize(build)..(AlmostEnough - windowSize(build) - 1) :
          input.series[i + 1].high > baseBar.high
    /\ output.levels.keyLevels = <<>>

====
